---- MODULE Spec2Model ----
(***************************************************************************)
(* Runtime filters of the physical planner (planner/core/runtime_filter.go)*)
(*                                                                         *)
(* The heap of the planner is modelled by three stores:                    *)
(*   filters  - the RuntimeFilter objects, a pointer is an index           *)
(*   columns  - the expression.Column objects, a pointer is an index and   *)
(*              the stored value is the column's UniqueID                  *)
(*   the operators (PhysicalHashJoin, PhysicalTableScan) are named by      *)
(*   strings; their runtimeFilterList / maxWaitTimeMs fields are the       *)
(*   functions joinList, scanList, maxWaitTimeMs.                          *)
(* A slice of column pointers is a sequence of column indices.  A slice    *)
(* that shares its backing array with another one holds the same column    *)
(* pointers, so two non-empty slices with disjoint pointers are distinct   *)
(* arrays.                                                                 *)
(***************************************************************************)
EXTENDS Integers, Sequences, FiniteSets, TLC

VARIABLES
    rfIDGenerator,   \* util.IDGenerator: the last id handed out
    rfTypes,         \* session variable: the enabled runtime filter types
    filters,         \* heap of RuntimeFilter objects
    columns,         \* heap of expression.Column objects (UniqueID of each)
    joinList,        \* PhysicalHashJoin.runtimeFilterList
    scanList,        \* PhysicalTableScan.runtimeFilterList
    maxWaitTimeMs,   \* PhysicalTableScan.maxWaitTimeMs
    ret              \* the last call: its name, arguments and return value

vars == <<rfIDGenerator, rfTypes, filters, columns, joinList, scanList,
          maxWaitTimeMs, ret>>

(***************************************************************************)
(* Bounds of the model                                                     *)
(***************************************************************************)
MaxFilters == 3      \* RuntimeFilter objects on the heap (generated + cloned)
MaxAssigns == 3      \* assign calls made in one behaviour

(***************************************************************************)
(* Program constants and the plan the filters are built for                *)
(***************************************************************************)
DefaultMaxWaitTimeMs == 10000

Nil == "nil"

\* The operators of the plan, named as in explain output: type_id.
Joins == {"HashJoin_2", "HashJoin_3"}
Scans == {"TableScan_0", "TableScan_1"}

\* PhysicalPlan.id / ID()
PlanID(op) ==
    CASE op = "TableScan_0" -> 0
      [] op = "TableScan_1" -> 1
      [] op = "HashJoin_2"  -> 2
      [] op = "HashJoin_3"  -> 3

AllPlanIDs == {PlanID(op) : op \in Joins \cup Scans}

\* PhysicalHashJoin.RightIsBuildSide(): HashJoin_2 builds from its right
\* child, HashJoin_3 from its left child.
RightIsBuildSide(buildNode) == buildNode = "HashJoin_2"

\* The columns of the plan before any filter exists: UniqueID of column i.
BaseColumns == <<11, 21, 12, 22>>

\* The equal condition of each join: <<args[0], args[1]>>, column pointers;
\* args[0] is a column of the left child, args[1] of the right child.
EqualCondition(join) == IF join = "HashJoin_2" THEN <<1, 2>> ELSE <<3, 4>>

\* The output column a table scan offers as target expression.
ScanColumns(scan) == IF scan = "TableScan_0" THEN {1} ELSE {3}

\* variable.RuntimeFilterType: the values of tidb_runtime_filter_type
RFTypeConfigs == {<<>>, <<"IN">>, <<"IN", "MIN_MAX">>}

(***************************************************************************)
(* Helpers                                                                 *)
(***************************************************************************)
Handles == 1..Len(filters)

\* A live filter points at its build node; a clone holds ids only.
IsLive(h) == filters[h].buildNode # Nil
LiveHandles == {h \in Handles : IsLive(h)}
CloneHandles == {h \in Handles : ~IsLive(h)}

Range(s) == {s[i] : i \in 1..Len(s)}

Count(s, x) == Cardinality({i \in 1..Len(s) : s[i] = x})

\* expression.Column.UniqueID
UniqueID(col) == columns[col]

ColumnsOf(rf) == Range(rf.srcExprList) \cup Range(rf.targetExprList)

(***************************************************************************)
(* util.IDGenerator.GetNextID                                              *)
(***************************************************************************)
GetNextID(gen) == gen + 1

RECURSIVE IDAfter(_, _)
\* the generator after n calls of GetNextID
IDAfter(gen, n) == IF n = 0 THEN gen ELSE GetNextID(IDAfter(gen, n - 1))

(***************************************************************************)
(* NewRuntimeFilter                                                        *)
(***************************************************************************)
\* the zero value of the fields the constructor does not name
ZeroRuntimeFilter ==
    [id |-> 0, buildNode |-> Nil, srcExprList |-> <<>>,
     targetExprList |-> <<>>, rfType |-> "IN", rfMode |-> "UNSET",
     targetNode |-> Nil, buildNodeID |-> 0, targetNodeID |-> 0]

NewRuntimeFilterSharedID(gen, types, eqPredicate, buildNode) ==
    LET rightSideIsBuild == RightIsBuildSide(buildNode)
        srcExprList == IF rightSideIsBuild THEN <<eqPredicate[2]>>
                                           ELSE <<eqPredicate[1]>>
        targetExprUniqueID == IF rightSideIsBuild
                              THEN UniqueID(eqPredicate[1])
                              ELSE UniqueID(eqPredicate[2])
    IN  [result |-> [i \in 1..Len(types) |->
                        [ZeroRuntimeFilter EXCEPT
                            !.id = GetNextID(gen),
                            !.buildNode = buildNode,
                            !.srcExprList = srcExprList,
                            !.rfType = types[i]]],
         gen |-> IF Len(types) = 0 THEN gen ELSE GetNextID(gen),
         targetExprUniqueID |-> targetExprUniqueID]

NewRuntimeFilterSwapped(gen, types, eqPredicate, buildNode) ==
    LET rightSideIsBuild == RightIsBuildSide(buildNode)
        srcExprList == IF rightSideIsBuild THEN <<eqPredicate[1]>>
                                           ELSE <<eqPredicate[2]>>
        targetExprUniqueID == IF rightSideIsBuild
                              THEN UniqueID(eqPredicate[2])
                              ELSE UniqueID(eqPredicate[1])
    IN  [result |-> [i \in 1..Len(types) |->
                        [ZeroRuntimeFilter EXCEPT
                            !.id = IDAfter(gen, i),
                            !.buildNode = buildNode,
                            !.srcExprList = srcExprList,
                            !.rfType = types[i]]],
         gen |-> IDAfter(gen, Len(types)),
         targetExprUniqueID |-> targetExprUniqueID]

NewRuntimeFilterStaleGen(gen, types, eqPredicate, buildNode) ==
    LET rightSideIsBuild == RightIsBuildSide(buildNode)
        srcExprList == IF rightSideIsBuild THEN <<eqPredicate[2]>>
                                           ELSE <<eqPredicate[1]>>
        targetExprUniqueID == IF rightSideIsBuild
                              THEN UniqueID(eqPredicate[1])
                              ELSE UniqueID(eqPredicate[2])
    IN  [result |-> [i \in 1..Len(types) |->
                        [ZeroRuntimeFilter EXCEPT
                            !.id = IDAfter(gen, i),
                            !.buildNode = buildNode,
                            !.srcExprList = srcExprList,
                            !.rfType = types[i]]],
         gen |-> gen,
         targetExprUniqueID |-> targetExprUniqueID]

\* Returns the filters built, the generator after the call and the UniqueID
\* of the target column.
NewRuntimeFilter(gen, types, eqPredicate, buildNode) ==
    LET rightSideIsBuild == RightIsBuildSide(buildNode)
        srcExprList == IF rightSideIsBuild THEN <<eqPredicate[2]>>
                                           ELSE <<eqPredicate[1]>>
        targetExprUniqueID == IF rightSideIsBuild
                              THEN UniqueID(eqPredicate[1])
                              ELSE UniqueID(eqPredicate[2])
    IN  [result |-> [i \in 1..Len(types) |->
                        [ZeroRuntimeFilter EXCEPT
                            !.id = IDAfter(gen, i),
                            !.buildNode = buildNode,
                            !.srcExprList = srcExprList,
                            !.rfType = types[i]]],
         gen |-> IDAfter(gen, Len(types)),
         targetExprUniqueID |-> targetExprUniqueID]

(***************************************************************************)
(* RuntimeFilter.assign                                                    *)
(***************************************************************************)
\* The part of the heap that assign reads and writes.
Heap ==
    [filters |-> filters, joinList |-> joinList, scanList |-> scanList,
     maxWaitTimeMs |-> maxWaitTimeMs]

assignBuildListCheck(heap, rf, targetNode, targetExpr) ==
    LET buildNode == heap.filters[rf].buildNode
    IN  [filters |->
            [heap.filters EXCEPT
                ![rf].targetNode = targetNode,
                ![rf].targetExprList = Append(@, targetExpr)],
         maxWaitTimeMs |->
            IF Len(heap.joinList[buildNode]) = 0
            THEN [heap.maxWaitTimeMs EXCEPT ![targetNode] = DefaultMaxWaitTimeMs]
            ELSE heap.maxWaitTimeMs,
         joinList |-> [heap.joinList EXCEPT ![buildNode] = Append(@, rf)],
         scanList |-> [heap.scanList EXCEPT ![targetNode] = Append(@, rf)]]

assignNoBuildLink(heap, rf, targetNode, targetExpr) ==
    [filters |->
        [heap.filters EXCEPT
            ![rf].targetNode = targetNode,
            ![rf].targetExprList = Append(@, targetExpr)],
     maxWaitTimeMs |->
        IF Len(heap.scanList[targetNode]) = 0
        THEN [heap.maxWaitTimeMs EXCEPT ![targetNode] = DefaultMaxWaitTimeMs]
        ELSE heap.maxWaitTimeMs,
     joinList |-> heap.joinList,
     scanList |-> [heap.scanList EXCEPT ![targetNode] = Append(@, rf)]]

\* rf is a pointer to a filter whose buildNode is not nil.
assign(heap, rf, targetNode, targetExpr) ==
    LET buildNode == heap.filters[rf].buildNode
    IN  [filters |->
            [heap.filters EXCEPT
                ![rf].targetNode = targetNode,
                ![rf].targetExprList = Append(@, targetExpr)],
         maxWaitTimeMs |->
            IF Len(heap.scanList[targetNode]) = 0
            THEN [heap.maxWaitTimeMs EXCEPT ![targetNode] = DefaultMaxWaitTimeMs]
            ELSE heap.maxWaitTimeMs,
         joinList |-> [heap.joinList EXCEPT ![buildNode] = Append(@, rf)],
         scanList |-> [heap.scanList EXCEPT ![targetNode] = Append(@, rf)]]

(***************************************************************************)
(* RuntimeFilter.Clone                                                     *)
(***************************************************************************)
\* expression.Column.Clone: a new Column object holding a copy of the value.
ColumnClone(cols, col) ==
    [columns |-> Append(cols, cols[col]), col |-> Len(cols) + 1]

RECURSIVE CloneColumns(_, _)
\* the loops "cloned.xExprList = append(cloned.xExprList, x.Clone())"
CloneColumns(cols, list) ==
    IF list = <<>>
    THEN [columns |-> cols, list |-> <<>>]
    ELSE LET head == ColumnClone(cols, Head(list))
             rest == CloneColumns(head.columns, Tail(list))
         IN  [columns |-> rest.columns, list |-> <<head.col>> \o rest.list]

CloneShallow(cols, rf) ==
    [columns |-> cols,
     cloned |->
        [ZeroRuntimeFilter EXCEPT
            !.id = rf.id,
            !.buildNodeID = IF rf.buildNode = Nil THEN rf.buildNodeID
                                                  ELSE PlanID(rf.buildNode),
            !.targetNodeID = IF rf.targetNode = Nil THEN rf.targetNodeID
                                                    ELSE PlanID(rf.targetNode),
            !.srcExprList = rf.srcExprList,
            !.targetExprList = rf.targetExprList,
            !.rfType = rf.rfType,
            !.rfMode = rf.rfMode]]

CloneStaleTargetID(cols, rf) ==
    LET src == CloneColumns(cols, rf.srcExprList)
        target == CloneColumns(src.columns, rf.targetExprList)
    IN  [columns |-> target.columns,
         cloned |->
            [ZeroRuntimeFilter EXCEPT
                !.id = rf.id,
                !.buildNodeID = IF rf.buildNode = Nil THEN rf.buildNodeID
                                                      ELSE PlanID(rf.buildNode),
                !.targetNodeID = rf.targetNodeID,
                !.srcExprList = src.list,
                !.targetExprList = target.list,
                !.rfType = rf.rfType,
                !.rfMode = rf.rfMode]]

\* rf is the filter object cloned; returns the clone and the column heap
\* after the call.
Clone(cols, rf) ==
    LET src == CloneColumns(cols, rf.srcExprList)
        target == CloneColumns(src.columns, rf.targetExprList)
    IN  [columns |-> target.columns,
         cloned |->
            [ZeroRuntimeFilter EXCEPT
                !.id = rf.id,
                !.buildNodeID = IF rf.buildNode = Nil THEN rf.buildNodeID
                                                      ELSE PlanID(rf.buildNode),
                !.targetNodeID = IF rf.targetNode = Nil THEN rf.targetNodeID
                                                        ELSE PlanID(rf.targetNode),
                !.srcExprList = src.list,
                !.targetExprList = target.list,
                !.rfType = rf.rfType,
                !.rfMode = rf.rfMode]]

(***************************************************************************)
(* The record of a call                                                    *)
(***************************************************************************)
Call(op, eq, node, rf, expr, result, uid) ==
    [op |-> op, eq |-> eq, node |-> node, rf |-> rf, expr |-> expr,
     result |-> result, uid |-> uid]

Init ==
    /\ rfIDGenerator = 0
    /\ rfTypes \in RFTypeConfigs
    /\ filters = <<>>
    /\ columns = BaseColumns
    /\ joinList = [j \in Joins |-> <<>>]
    /\ scanList = [s \in Scans |-> <<>>]
    /\ maxWaitTimeMs = [s \in Scans |-> 0]
    /\ ret = Call("init", <<>>, Nil, 0, 0, <<>>, 0)

\* NewRuntimeFilter(rfIDGenerator, eqPredicate, buildNode)
Generate(eqPredicate, buildNode) ==
    /\ Len(filters) + Len(rfTypes) <= MaxFilters
    /\ LET r == NewRuntimeFilter(rfIDGenerator, rfTypes, eqPredicate, buildNode)
       IN  /\ filters' = filters \o r.result
           /\ rfIDGenerator' = r.gen
           /\ ret' = Call("generate", eqPredicate, buildNode, 0, 0,
                          [i \in 1..Len(r.result) |-> Len(filters) + i],
                          r.targetExprUniqueID)
    /\ UNCHANGED <<rfTypes, columns, joinList, scanList, maxWaitTimeMs>>

\* assign calls made so far: each one appends to one scan's list
TotalAssigns == Len(scanList["TableScan_0"]) + Len(scanList["TableScan_1"])

\* rf.assign(targetNode, targetExpr), rf a filter made by NewRuntimeFilter
Assign(rf, targetNode, targetExpr) ==
    /\ IsLive(rf)
    /\ TotalAssigns < MaxAssigns
    /\ LET heap == assign(Heap, rf, targetNode, targetExpr)
       IN  /\ filters' = heap.filters
           /\ joinList' = heap.joinList
           /\ scanList' = heap.scanList
           /\ maxWaitTimeMs' = heap.maxWaitTimeMs
    /\ ret' = Call("assign", <<>>, targetNode, rf, targetExpr, <<>>, 0)
    /\ UNCHANGED <<rfIDGenerator, rfTypes, columns>>

\* rf.Clone()
CloneFilter(rf) ==
    /\ Len(filters) < MaxFilters
    /\ LET r == Clone(columns, filters[rf])
       IN  /\ filters' = Append(filters, r.cloned)
           /\ columns' = r.columns
    /\ ret' = Call("clone", <<>>, Nil, rf, 0, <<Len(filters) + 1>>, 0)
    /\ UNCHANGED <<rfIDGenerator, rfTypes, joinList, scanList, maxWaitTimeMs>>

Next ==
    \/ \E j \in Joins : Generate(EqualCondition(j), j)
    \/ \E rf \in Handles, s \in Scans :
          \E e \in ScanColumns(s) : Assign(rf, s, e)
    \/ \E rf \in Handles : CloneFilter(rf)

Spec == Init /\ [][Next]_vars

(***************************************************************************)
(* Text and wire forms                                                     *)
(*                                                                         *)
(* A Go string is a sequence of pieces: a digit, a separator, or the text  *)
(* of a type or of a column.                                               *)
(***************************************************************************)
MaxInt32 == 2147483647

\* int32(x) for 0 <= x < 2^32
Int32(x) == IF x > MaxInt32 THEN (x - MaxInt32) - MaxInt32 - 2 ELSE x

Digit(d) ==
    CASE d = 0 -> "0" [] d = 1 -> "1" [] d = 2 -> "2" [] d = 3 -> "3"
      [] d = 4 -> "4" [] d = 5 -> "5" [] d = 6 -> "6" [] d = 7 -> "7"
      [] d = 8 -> "8" [] d = 9 -> "9"

RECURSIVE Sprint(_)
\* fmt.Sprint(n) and the verb %d, for an int
Sprint(n) ==
    IF n < 0 THEN <<"-">> \o Sprint(0 - n)
    ELSE IF n < 10 THEN <<Digit(n)>>
    ELSE Sprint(n \div 10) \o <<Digit(n % 10)>>

\* expression.Column.String(): the name of the column with this UniqueID
ColumnString(col) ==
    CASE UniqueID(col) = 11 -> "t1.k1"
      [] UniqueID(col) = 21 -> "t2.k1"
      [] UniqueID(col) = 12 -> "t3.k1"
      [] UniqueID(col) = 22 -> "t4.k1"

\* The expressions the client may be unable to take, by UniqueID.
UnsupportedSets == {{}, {12}}

\* PBConverter.ExprToPB: no result (nil) for an expression the client
\* cannot take, else the wire expression of the column.
ExprToPB(unsupported, col) ==
    IF UniqueID(col) \in unsupported
    THEN <<>>
    ELSE <<[tp |-> "ColumnRef", uid |-> UniqueID(col)]>>

RECURSIVE ExprListToPB(_, _, _)
\* One conversion loop of ToPB: the list converted so far, and the text of
\* the expression that stopped the loop, if one did.
ExprListToPB(unsupported, list, done) ==
    IF list = <<>>
    THEN [pb |-> done, failed |-> <<>>]
    ELSE LET exprPB == ExprToPB(unsupported, Head(list))
         IN  IF exprPB = <<>>
             THEN [pb |-> done, failed |-> <<ColumnString(Head(list))>>]
             ELSE ExprListToPB(unsupported, Tail(list), done \o exprPB)

\* the error made by ErrInternal.GenWithStack: the list and the expression
ErrTransform(which, failed) == <<which>> \o failed

PBMessageSwappedExecutors(rf, srcExprListPB, targetExprListPB) ==
    [Id |-> Int32(rf.id),
     SourceExprList |-> srcExprListPB,
     TargetExprList |-> targetExprListPB,
     SourceExecutorId |-> Sprint(rf.targetNodeID),
     TargetExecutorId |-> Sprint(rf.buildNodeID),
     RfType |-> IF rf.rfType = "MIN_MAX" THEN "MIN_MAX" ELSE "IN",
     RfMode |-> IF rf.rfMode = "GLOBAL" THEN "GLOBAL" ELSE "LOCAL"]

PBMessageFromLiveNodes(rf, srcExprListPB, targetExprListPB) ==
    [Id |-> Int32(rf.id),
     SourceExprList |-> srcExprListPB,
     TargetExprList |-> targetExprListPB,
     SourceExecutorId |-> Sprint(IF rf.buildNode = Nil THEN rf.buildNodeID
                                 ELSE PlanID(rf.buildNode)),
     TargetExecutorId |-> Sprint(IF rf.targetNode = Nil THEN rf.targetNodeID
                                 ELSE PlanID(rf.targetNode)),
     RfType |-> IF rf.rfType = "MIN_MAX" THEN "MIN_MAX" ELSE "IN",
     RfMode |-> IF rf.rfMode = "GLOBAL" THEN "GLOBAL" ELSE "LOCAL"]

\* The tipb.RuntimeFilter built at the end of ToPB.  rfTypePB and rfModePB
\* start as IN and LOCAL and are replaced by the switch cases.
PBMessage(rf, srcExprListPB, targetExprListPB) ==
    LET rfTypePB == CASE rf.rfType = "IN" -> "IN"
                      [] rf.rfType = "MIN_MAX" -> "MIN_MAX"
                      [] OTHER -> "IN"
        rfModePB == CASE rf.rfMode = "LOCAL" -> "LOCAL"
                      [] rf.rfMode = "GLOBAL" -> "GLOBAL"
                      [] OTHER -> "LOCAL"
    IN  [Id |-> Int32(rf.id),
         SourceExprList |-> srcExprListPB,
         TargetExprList |-> targetExprListPB,
         SourceExecutorId |-> Sprint(rf.buildNodeID),
         TargetExecutorId |-> Sprint(rf.targetNodeID),
         RfType |-> rfTypePB,
         RfMode |-> rfModePB]

\* rf.ToPB(sc, client): pb is the message (no message on error), err the
\* error (empty when there is none).
ToPB(unsupported, rf) ==
    LET src == ExprListToPB(unsupported, rf.srcExprList, <<>>)
        target == ExprListToPB(unsupported, rf.targetExprList, <<>>)
    IN  IF src.failed # <<>>
        THEN [pb |-> <<>>, err |-> ErrTransform("src", src.failed)]
        ELSE IF target.failed # <<>>
        THEN [pb |-> <<>>, err |-> ErrTransform("target", target.failed)]
        ELSE [pb |-> <<PBMessage(rf, src.pb, target.pb)>>, err |-> <<>>]

RECURSIVE ListToPBFrom(_, _, _)
\* the loop of RuntimeFilterListToPB, result being the messages so far
ListToPBFrom(unsupported, runtimeFilterList, result) ==
    IF runtimeFilterList = <<>>
    THEN [isNil |-> FALSE, result |-> result, err |-> <<>>]
    ELSE LET one == ToPB(unsupported, filters[Head(runtimeFilterList)])
         IN  IF one.err # <<>>
             THEN [isNil |-> TRUE, result |-> <<>>, err |-> one.err]
             ELSE ListToPBFrom(unsupported, Tail(runtimeFilterList),
                               result \o one.pb)

RuntimeFilterListToPBSkipping(unsupported, runtimeFilterList) ==
    ListToPBFrom(unsupported,
                 SelectSeq(runtimeFilterList,
                           LAMBDA h : ToPB(unsupported, filters[h]).err = <<>>),
                 <<>>)

RuntimeFilterListToPBReversed(unsupported, runtimeFilterList) ==
    ListToPBFrom(unsupported,
                 [i \in 1..Len(runtimeFilterList) |->
                     runtimeFilterList[Len(runtimeFilterList) + 1 - i]],
                 <<>>)

\* RuntimeFilterListToPB(runtimeFilterList, sc, client); the list holds
\* pointers to filters.
RuntimeFilterListToPB(unsupported, runtimeFilterList) ==
    ListToPBFrom(unsupported, runtimeFilterList, <<>>)

(***************************************************************************)
(* RuntimeFilter.ExplainInfo                                               *)
(***************************************************************************)
RECURSIVE JoinColumns(_, _)
\* the loop over a list: a "," before every expression but the first
JoinColumns(list, i) ==
    IF i > Len(list) THEN <<>>
    ELSE (IF i # 1 THEN <<",">> ELSE <<>>)
         \o <<ColumnString(list[i])>> \o JoinColumns(list, i + 1)

ExplainInfoTrailingComma(rf, isBuildNode) ==
    LET list == IF isBuildNode THEN rf.srcExprList ELSE rf.targetExprList
        RECURSIVE Each(_)
        Each(i) == IF i > Len(list) THEN <<>>
                   ELSE <<ColumnString(list[i]), ",">> \o Each(i + 1)
    IN  Sprint(rf.id) \o <<"[", rf.rfType, "]">>
        \o (IF isBuildNode THEN <<" <- ">> ELSE <<" -> ">>) \o Each(1)

ExplainInfo(rf, isBuildNode) ==
    Sprint(rf.id) \o <<"[", rf.rfType, "]">>
    \o (IF isBuildNode
        THEN <<" <- ">> \o JoinColumns(rf.srcExprList, 1)
        ELSE <<" -> ">> \o JoinColumns(rf.targetExprList, 1))

\* The lists of filters handed to RuntimeFilterListToPB: at most two
\* filters, each at most once.
FilterLists ==
    {<<>>} \cup {<<h>> : h \in Handles}
           \cup {l \in Handles \X Handles : l[1] # l[2]}

\* The record of a call of RuntimeFilterListToPB
PBCall(runtimeFilterList, unsupported, out) ==
    [op |-> "listToPB", list |-> runtimeFilterList,
     unsupported |-> unsupported, isNil |-> out.isNil,
     pb |-> out.result, err |-> out.err]

\* The record of a call of ExplainInfo
ExplainCall(rf, isBuildNode, text) ==
    [op |-> "explain", rf |-> rf, isBuildNode |-> isBuildNode, text |-> text]

\* RuntimeFilterListToPB(runtimeFilterList, sc, client)
ListToPB(runtimeFilterList, unsupported) ==
    /\ ret' = PBCall(runtimeFilterList, unsupported,
                     RuntimeFilterListToPB(unsupported, runtimeFilterList))
    /\ UNCHANGED <<rfIDGenerator, rfTypes, filters, columns, joinList,
                   scanList, maxWaitTimeMs>>

\* rf.ExplainInfo(isBuildNode)
Explain(rf, isBuildNode) ==
    /\ ret' = ExplainCall(rf, isBuildNode, ExplainInfo(filters[rf], isBuildNode))
    /\ UNCHANGED <<rfIDGenerator, rfTypes, filters, columns, joinList,
                   scanList, maxWaitTimeMs>>

\* Plans built with both filter types enabled, or with none.
InitPB == Init /\ Len(rfTypes) # 1

\* RuntimeFilterListToPB and ExplainInfo only read the filters: the state
\* they leave differs from the one they were called in by ret alone, so
\* every call is taken from a state that a building call has left.
Reading == ret.op \in {"listToPB", "explain"}

NextPB ==
    \/ ~Reading /\ \E j \in Joins : Generate(EqualCondition(j), j)
    \/ ~Reading /\ \E rf \in Handles, s \in Scans :
          \E e \in ScanColumns(s) : Assign(rf, s, e)
    \/ ~Reading /\ \E rf \in Handles : CloneFilter(rf)
    \/ ~Reading /\ \E l \in FilterLists, u \in UnsupportedSets : ListToPB(l, u)
    \/ ~Reading /\ \E rf \in Handles, b \in BOOLEAN : Explain(rf, b)

\* Building, assigning, cloning, serializing and explaining filters.
SpecPB == InitPB /\ [][NextPB]_vars

(***************************************************************************)
(* Properties                                                              *)
(***************************************************************************)
\* the filter objects returned by the last NewRuntimeFilter call
Returned == {ret.result[i] : i \in 1..Len(ret.result)}

\* C1: one NewRuntimeFilter call on one equal condition returns exactly one
\* filter per enabled filter type (none when no type is enabled), in the
\* order of the configuration; each has an id drawn from the generator
\* during the call that no other filter object carries, rfMode unset, no
\* target node, an empty targetExprList and a srcExprList of length 1.
C1_GenerateShape ==
    ret.op = "generate" =>
        /\ Len(ret.result) = Len(rfTypes)
        /\ Cardinality(Returned) = Len(rfTypes)
        /\ Returned \subseteq Handles
        /\ \A i \in 1..Len(ret.result) :
              LET rf == filters[ret.result[i]]
              IN  /\ rf.rfMode = "UNSET"
                  /\ rf.targetNode = Nil
                  /\ rf.targetExprList = <<>>
                  /\ Len(rf.srcExprList) = 1
                  /\ rf.rfType = rfTypes[i]
                  /\ rf.buildNode = ret.node
                  /\ rf.id <= rfIDGenerator
                  /\ rf.id > rfIDGenerator - Len(rfTypes)
                  /\ \A h \in Handles \ {ret.result[i]} :
                        filters[h].id # rf.id

C1_GenerateTwoTypes ==
    /\ ret.op = "generate"
    /\ Len(ret.result) = 2
    /\ rfTypes = <<"IN", "MIN_MAX">>

\* C2: for the equal condition arg0 = arg1, when the right child is the
\* build side every returned filter has srcExprList = [arg1] and the
\* returned UniqueID is arg0's; when the left child is the build side
\* srcExprList = [arg0] and the returned UniqueID is arg1's.  The source
\* column and the target identity belong to the two different arguments.
C2_BuildSideSource ==
    ret.op = "generate" =>
        LET src == IF RightIsBuildSide(ret.node) THEN ret.eq[2] ELSE ret.eq[1]
            target == IF RightIsBuildSide(ret.node) THEN ret.eq[1] ELSE ret.eq[2]
        IN  /\ ret.uid = UniqueID(target)
            /\ ret.uid # UniqueID(src)
            /\ {src, target} = {ret.eq[1], ret.eq[2]}
            /\ src # target
            /\ \A h \in Returned : filters[h].srcExprList = <<src>>

C2_LeftBuildGenerated ==
    /\ ret.op = "generate"
    /\ ~RightIsBuildSide(ret.node)
    /\ Len(ret.result) >= 1
    /\ ret.uid = UniqueID(ret.eq[2])

\* ids in a state: increasing with creation, shared only with clones
C3_IdsState ==
    /\ \A g, h \in LiveHandles : g < h => filters[g].id < filters[h].id
    /\ \A g, h \in LiveHandles : g # h => filters[g].id # filters[h].id
    /\ \A c \in CloneHandles :
          Cardinality({h \in LiveHandles : filters[h].id = filters[c].id}) = 1
    /\ ret.op = "clone" =>
          /\ ret.result[1] \in CloneHandles
          /\ filters[ret.result[1]].id = filters[ret.rf].id

\* no step rewrites the id of an existing filter object
C3_IdsStep ==
    \A h \in Handles :
        /\ h \in DOMAIN filters'
        /\ filters'[h].id = filters[h].id

\* C3: with one id generator, no two filters made by NewRuntimeFilter have
\* the same id, ids grow strictly in the order of creation, the id of a
\* filter object never changes, a clone carries the id of its original, and
\* the only objects that share an id with a filter are clones.
C3_UniqueIds == []C3_IdsState /\ [][C3_IdsStep]_vars

C3_TwoFiltersAssignedCloned ==
    /\ Cardinality(LiveHandles) >= 2
    /\ CloneHandles # {}
    /\ \E h \in LiveHandles : filters[h].targetNode # Nil
    /\ ret.op = "generate"

\* the mode of a filter follows from whether it has a target node
C4_ModeState ==
    \A h \in LiveHandles :
        /\ filters[h].targetNode = Nil => filters[h].rfMode = "UNSET"
        /\ filters[h].targetNode # Nil => filters[h].rfMode \in {"LOCAL", "GLOBAL"}

\* a mode once set is kept by every step
C4_ModeStep ==
    \A h \in Handles :
        filters[h].rfMode # "UNSET" => filters'[h].rfMode = filters[h].rfMode

\* C4: a filter without a target node has rfMode unset, a filter that has
\* been assigned has rfMode LOCAL or GLOBAL, and a mode once set never
\* changes.
C4_ModeLifecycle == []C4_ModeState /\ [][C4_ModeStep]_vars

\* C5: every filter that has a target node has as many target expressions
\* as source expressions; targetExprList is empty before assign and after
\* the one assign call of a filter it is exactly the expression supplied.
C5_TargetLenMatchesSource ==
    /\ \A h \in LiveHandles :
          /\ filters[h].targetNode = Nil => filters[h].targetExprList = <<>>
          /\ filters[h].targetNode # Nil =>
                Len(filters[h].targetExprList) = Len(filters[h].srcExprList)
    /\ (ret.op = "assign" /\ Len(filters[ret.rf].targetExprList) = 1)
          => filters[ret.rf].targetExprList = <<ret.expr>>

\* C6: assign on a filter that already has a target node fails and leaves
\* the filter, the build join's list, every scan's list and every scan's
\* wait time as they were.
C6_SecondAssignRejected ==
    [][(/\ ret'.op = "assign"
        /\ ret'.rf \in Handles
        /\ filters[ret'.rf].targetNode # Nil)
       => UNCHANGED <<filters, joinList, scanList, maxWaitTimeMs>>]_vars

\* the number of times a filter is in some scan's list
ScanOccurrences(h) ==
    Count(scanList["TableScan_0"], h) + Count(scanList["TableScan_1"], h)

\* C7, as stated: every filter is in exactly one join's list, that of its
\* build node, and in at most one scan's list, at most once in each list,
\* and it is in a scan's list exactly when that scan is its target node.
C7_ListsConsistent ==
    \A h \in LiveHandles :
        /\ {j \in Joins : Count(joinList[j], h) > 0} = {filters[h].buildNode}
        /\ Cardinality({s \in Scans : Count(scanList[s], h) > 0}) <= 1
        /\ \A j \in Joins : Count(joinList[j], h) <= 1
        /\ \A s \in Scans : Count(scanList[s], h) <= 1
        /\ \A s \in Scans : Count(scanList[s], h) > 0 <=> filters[h].targetNode = s

\* C7, amended: a filter is in no list until it is assigned; each assign
\* call appends it once to the list of its build node and once to the list
\* of the scan named, so it is in the list of no other join, its target
\* node's list holds it, and a filter assigned once is exactly once in its
\* build node's list and exactly once in its target node's list.  Clones are
\* in no list.
C7_ListsFollowAssigns ==
    /\ \A j \in Joins : Range(joinList[j]) \subseteq LiveHandles
    /\ \A s \in Scans : Range(scanList[s]) \subseteq LiveHandles
    /\ \A h \in LiveHandles :
          LET rf == filters[h]
              n == Len(rf.targetExprList)
          IN  /\ \A j \in Joins :
                    Count(joinList[j], h) = IF j = rf.buildNode THEN n ELSE 0
              /\ ScanOccurrences(h) = n
              /\ rf.targetNode = Nil <=> n = 0
              /\ rf.targetNode # Nil => Count(scanList[rf.targetNode], h) >= 1
              /\ n = 1 => \A s \in Scans :
                    Count(scanList[s], h) = IF s = rf.targetNode THEN 1 ELSE 0

C7_AssignedAndUnassigned ==
    /\ \E h \in LiveHandles : filters[h].targetNode = Nil
    /\ \E h \in LiveHandles :
          /\ Len(filters[h].targetExprList) = 1
          /\ Count(scanList[filters[h].targetNode], h) = 1
          /\ Count(joinList[filters[h].buildNode], h) = 1
    /\ ret.op = "assign"

\* two filters of one predicate, one per type, each assigned once, to scan s
SiblingsAssignedTo(g, h, s) ==
    /\ g # h
    /\ filters[g].buildNode = filters[h].buildNode
    /\ filters[g].srcExprList = filters[h].srcExprList
    /\ filters[g].rfType = "IN"
    /\ filters[h].rfType = "MIN_MAX"
    /\ filters[g].targetNode = s
    /\ filters[h].targetNode = s
    /\ Len(filters[g].targetExprList) = 1
    /\ Len(filters[h].targetExprList) = 1
    /\ \A k \in LiveHandles \ {g, h} : Count(scanList[s], k) = 0

\* the wait time of a scan that has a filter
C8_BudgetState ==
    /\ \A s \in Scans :
          Len(scanList[s]) >= 1 => maxWaitTimeMs[s] = DefaultMaxWaitTimeMs
    /\ \A s \in Scans, g, h \in LiveHandles :
          SiblingsAssignedTo(g, h, s) =>
             /\ Len(scanList[s]) = 2
             /\ maxWaitTimeMs[s] = DefaultMaxWaitTimeMs

\* what one step does to the wait time of each scan
C8_BudgetStep ==
    \A s \in Scans :
        /\ (ret'.op = "assign" /\ ret'.node = s /\ Len(scanList[s]) = 0)
              => maxWaitTimeMs'[s] = DefaultMaxWaitTimeMs
        /\ Len(scanList[s]) > 0 => maxWaitTimeMs'[s] = maxWaitTimeMs[s]
        /\ ~(ret'.op = "assign" /\ ret'.node = s)
              => maxWaitTimeMs'[s] = maxWaitTimeMs[s]

\* C8: the wait time of a scan is set once: the assign that finds the
\* scan's list empty sets it to the default, an assign that finds the list
\* non-empty leaves it as it was, and no call changes the wait time of a scan
\* other than the target of an assign.  After the IN and the MIN_MAX filter
\* of one predicate are assigned to one scan its list has length 2 and its
\* wait time is the default.
C8_BudgetSetOnce == []C8_BudgetState /\ [][C8_BudgetStep]_vars

C8_TwoFiltersOneScan ==
    /\ ret.op = "assign"
    /\ \E s \in Scans, g, h \in LiveHandles :
          /\ SiblingsAssignedTo(g, h, s)
          /\ scanList[s] = <<g, h>>
          /\ \E t \in Scans \ {s} : maxWaitTimeMs[t] # DefaultMaxWaitTimeMs

\* the columns of two lists are equal one by one, in order
SameColumns(a, b) ==
    /\ Len(a) = Len(b)
    /\ \A i \in 1..Len(a) : UniqueID(a[i]) = UniqueID(b[i])

\* the clone just made, and the Column objects of every clone
C9_CloneState ==
    /\ ret.op = "clone" =>
          LET c == filters[ret.result[1]]
              o == filters[ret.rf]
          IN  /\ ret.result[1] # ret.rf
              /\ c.id = o.id
              /\ c.rfType = o.rfType
              /\ c.rfMode = o.rfMode
              /\ SameColumns(c.srcExprList, o.srcExprList)
              /\ SameColumns(c.targetExprList, o.targetExprList)
              /\ c.buildNode = Nil
              /\ c.targetNode = Nil
    /\ \A c \in CloneHandles :
          /\ \A h \in Handles \ {c} :
                ColumnsOf(filters[c]) \cap ColumnsOf(filters[h]) = {}
          /\ ColumnsOf(filters[c]) \cap (1..Len(BaseColumns)) = {}
          /\ Cardinality(ColumnsOf(filters[c])) =
                Len(filters[c].srcExprList) + Len(filters[c].targetExprList)

\* what Clone and assign leave alone
C9_CloneStep ==
    /\ ret'.op = "clone" =>
          /\ \A h \in Handles : filters'[h] = filters[h]
          /\ UNCHANGED <<joinList, scanList, maxWaitTimeMs>>
    /\ \A a \in 1..Len(columns) : columns'[a] = columns[a]
    /\ ret'.op = "assign" =>
          \A h \in Handles \ {ret'.rf} : filters'[h] = filters[h]

\* C9: a clone has the id, type and mode of its original and expression
\* lists equal to the original's element by element, in order; it points at
\* no operator; Clone changes neither the original nor any operator's list;
\* the Column objects of a clone are its own (no other filter object and no
\* column of the plan is one of them), so that a write through the clone
\* cannot reach the original, nor one through the original the clone.
C9_CloneIndependent == []C9_CloneState /\ [][C9_CloneStep]_vars

C9_OriginalChangedAfterClone ==
    /\ ret.op = "assign"
    /\ \E c \in CloneHandles :
          /\ filters[c].id = filters[ret.rf].id
          /\ Len(filters[c].targetExprList) = 1
          /\ Len(filters[ret.rf].targetExprList) = 2

\* C10, as stated: the clone's buildNodeID is the id of the build node when
\* the filter points at one and else the filter's own buildNodeID; its
\* targetNodeID follows the same rule, but the clone of a filter that was
\* never assigned carries a value that is the id of no operator.
C10_NoTargetSentinel ==
    ret.op = "clone" =>
        LET c == filters[ret.result[1]]
            o == filters[ret.rf]
        IN  /\ c.buildNodeID = IF o.buildNode # Nil THEN PlanID(o.buildNode)
                                                   ELSE o.buildNodeID
            /\ o.targetNode # Nil => c.targetNodeID = PlanID(o.targetNode)
            /\ (o.targetNode = Nil /\ ~IsLive(ret.rf))
                  => c.targetNodeID = o.targetNodeID
            /\ (o.targetNode = Nil /\ IsLive(ret.rf))
                  => c.targetNodeID \notin AllPlanIDs

\* C10, amended: buildNodeID and targetNodeID follow one rule: the id of
\* the operator the filter points at, else the filter's own field.  A clone
\* of a clone carries the two ids of the clone; the clone of a filter that
\* was never assigned carries targetNodeID 0, the zero value of the field,
\* which is also the id of TableScan_0.
C10_CloneResolvesIDs ==
    ret.op = "clone" =>
        LET c == filters[ret.result[1]]
            o == filters[ret.rf]
        IN  /\ c.buildNodeID = IF o.buildNode # Nil THEN PlanID(o.buildNode)
                                                   ELSE o.buildNodeID
            /\ c.targetNodeID = IF o.targetNode # Nil THEN PlanID(o.targetNode)
                                                     ELSE o.targetNodeID
            /\ ~IsLive(ret.rf) =>
                  /\ c.buildNodeID = o.buildNodeID
                  /\ c.targetNodeID = o.targetNodeID
            /\ (IsLive(ret.rf) /\ o.targetNode = Nil) =>
                  /\ c.targetNodeID = 0
                  /\ c.targetNodeID = PlanID("TableScan_0")

C10_CloneOfResolvedClone ==
    /\ ret.op = "clone"
    /\ ~IsLive(ret.rf)
    /\ filters[ret.rf].targetNodeID = PlanID("TableScan_1")
    /\ filters[ret.rf].buildNodeID = PlanID("HashJoin_3")
    /\ filters[ret.result[1]].targetNodeID = PlanID("TableScan_1")

(***************************************************************************)
(* Properties of serialization and explanation                             *)
(***************************************************************************)
\* an expression of the filter is one the client cannot take
HasUnsupported(unsupported, rf) ==
    \E c \in ColumnsOf(rf) : UniqueID(c) \in unsupported

\* the first expression of a list that the client cannot take
FirstUnsupported(unsupported, list) ==
    list[CHOOSE i \in 1..Len(list) :
            /\ UniqueID(list[i]) \in unsupported
            /\ \A k \in 1..(i - 1) : UniqueID(list[k]) \notin unsupported]

\* the error owed for a filter with an unsupported expression
ErrorFor(unsupported, rf) ==
    IF \E c \in Range(rf.srcExprList) : UniqueID(c) \in unsupported
    THEN <<"src", ColumnString(FirstUnsupported(unsupported, rf.srcExprList))>>
    ELSE <<"target",
           ColumnString(FirstUnsupported(unsupported, rf.targetExprList))>>

\* the filters of the list just serialized that cannot be converted
FailingIn(list, unsupported) ==
    {i \in 1..Len(list) : HasUnsupported(unsupported, filters[list[i]])}

\* a failed call returns no list and the error of the first failing filter
C11_FailureState ==
    (ret.op = "listToPB" /\ FailingIn(ret.list, ret.unsupported) # {}) =>
        LET first == CHOOSE i \in FailingIn(ret.list, ret.unsupported) :
                        \A k \in FailingIn(ret.list, ret.unsupported) : i <= k
        IN  /\ ret.isNil
            /\ ret.pb = <<>>
            /\ ret.err = ErrorFor(ret.unsupported, filters[ret.list[first]])

\* serializing writes no filter, column or operator
C11_FailureStep ==
    ret'.op = "listToPB" =>
        UNCHANGED <<filters, columns, joinList, scanList, maxWaitTimeMs>>

\* C11: when an expression of a filter of the list cannot be converted,
\* RuntimeFilterListToPB returns an error and no list (no message of an
\* earlier filter, no partly filled message); the error names the text of
\* the first expression that failed and whether it is a source or a target
\* expression; the filters are left as they were.
C11_FailsAtomically == []C11_FailureState /\ [][C11_FailureStep]_vars

C11_SecondFilterFailsOnTarget ==
    /\ ret.op = "listToPB"
    /\ Len(ret.list) = 2
    /\ ~HasUnsupported(ret.unsupported, filters[ret.list[1]])
    /\ ret.err = <<"target", "t3.k1">>
    /\ ret.isNil

\* C12: a filter whose rfMode is unset is not serialized: the call returns
\* an error; the RfMode of every message returned is the LOCAL or GLOBAL
\* mode of its filter.
C12_UnsetModeRejected ==
    ret.op = "listToPB" =>
        /\ (\E i \in 1..Len(ret.list) : filters[ret.list[i]].rfMode = "UNSET")
              => (ret.err # <<>> /\ ret.isNil)
        /\ ret.err = <<>> =>
              \A i \in 1..Len(ret.list) :
                 /\ ret.pb[i].RfMode = filters[ret.list[i]].rfMode
                 /\ filters[ret.list[i]].rfMode \in {"LOCAL", "GLOBAL"}

\* the scan that offers the column with this UniqueID
ScanOfColumn(uid) ==
    CHOOSE s \in Scans : \E e \in ScanColumns(s) : BaseColumns[e] = uid

\* The target scan of a filter: targetNode of a live filter; for a clone the
\* scan of the last target expression it copied (none for an empty list).
TargetScanOf(h) ==
    IF IsLive(h) THEN filters[h].targetNode
    ELSE IF filters[h].targetExprList = <<>> THEN Nil
    ELSE ScanOfColumn(UniqueID(
            filters[h].targetExprList[Len(filters[h].targetExprList)]))

\* the filter made by NewRuntimeFilter that h is, or is a clone of
OriginalOf(h) == CHOOSE g \in LiveHandles : filters[g].id = filters[h].id

\* clones made of a filter after it was assigned
AssignedClones == {h \in CloneHandles : filters[h].targetExprList # <<>>}

WireOf(list) ==
    [k \in 1..Len(list) |-> [tp |-> "ColumnRef", uid |-> UniqueID(list[k])]]

\* C14: when every expression converts, RuntimeFilterListToPB returns one
\* message per filter of the list, in the order of the list, each with the
\* source and target expressions in the order of the filter's lists; for
\* the empty list it returns an empty list and no error.
C14_OrderKept ==
    (ret.op = "listToPB" /\ FailingIn(ret.list, ret.unsupported) = {}) =>
        /\ ret.err = <<>>
        /\ ~ret.isNil
        /\ Len(ret.pb) = Len(ret.list)
        /\ \A i \in 1..Len(ret.list) :
              /\ ret.pb[i].Id = filters[ret.list[i]].id
              /\ ret.pb[i].RfType = filters[ret.list[i]].rfType
              /\ ret.pb[i].SourceExprList = WireOf(filters[ret.list[i]].srcExprList)
              /\ ret.pb[i].TargetExprList = WireOf(filters[ret.list[i]].targetExprList)

C14_TwoFiltersTwoTargets ==
    /\ ret.op = "listToPB"
    /\ ret.err = <<>>
    /\ Len(ret.pb) = 2
    /\ ret.pb[1].Id # ret.pb[2].Id
    /\ \E i \in 1..2 :
          /\ Len(ret.pb[i].TargetExprList) = 2
          /\ ret.pb[i].TargetExprList[1] # ret.pb[i].TargetExprList[2]

\* the text after the arrow: n expressions and n-1 commas between them
C15_ListText(body, list) ==
    /\ Len(body) = IF list = <<>> THEN 0 ELSE 2 * Len(list) - 1
    /\ \A i \in 1..Len(list) : body[2 * i - 1] = ColumnString(list[i])
    /\ \A i \in 1..(Len(list) - 1) : body[2 * i] = ","
    /\ Count(body, ",") = IF list = <<>> THEN 0 ELSE Len(list) - 1

\* the text returned by the last ExplainInfo call
C15_ExplainState ==
    ret.op = "explain" =>
        LET rf == filters[ret.rf]
            head == Sprint(rf.id) \o <<"[", rf.rfType, "]">>
                    \o <<IF ret.isBuildNode THEN " <- " ELSE " -> ">>
            list == IF ret.isBuildNode THEN rf.srcExprList
                                       ELSE rf.targetExprList
        IN  /\ Len(ret.text) >= Len(head)
            /\ SubSeq(ret.text, 1, Len(head)) = head
            /\ C15_ListText(SubSeq(ret.text, Len(head) + 1, Len(ret.text)), list)

\* ExplainInfo writes no filter, column or operator
C15_ExplainStep ==
    ret'.op = "explain" =>
        UNCHANGED <<rfIDGenerator, filters, columns, joinList, scanList,
                    maxWaitTimeMs>>

\* C15: ExplainInfo(true) is the id and type, " <- " and the source
\* expressions in the order of srcExprList; ExplainInfo(false) is the id and
\* type, " -> " and the target expressions in the order of targetExprList;
\* n expressions are separated by n-1 commas, none leading or trailing; the
\* call changes no filter and no operator.
C15_ExplainOrdered == []C15_ExplainState /\ [][C15_ExplainStep]_vars

C15_TwoTargetsExplained ==
    /\ ret.op = "explain"
    /\ ~ret.isBuildNode
    /\ Len(filters[ret.rf].targetExprList) = 2
    /\ ret.text = <<"1", "[", "IN", "]", " -> ", "t1.k1", ",", "t3.k1">>

\* C17: ToPB reads buildNodeID and targetNodeID, which only Clone writes: a
\* filter made by NewRuntimeFilter keeps both at 0 whatever is assigned to
\* it, and its message carries "0" and "0"; these are the ids of its build
\* join and target scan only where those ids are 0.
C17_LiveFilterSerializesZero ==
    /\ \A h \in LiveHandles :
          filters[h].buildNodeID = 0 /\ filters[h].targetNodeID = 0
    /\ (ret.op = "listToPB" /\ ret.err = <<>>) =>
          \A i \in 1..Len(ret.list) :
             LET h == ret.list[i]
             IN  IsLive(h) =>
                    /\ ret.pb[i].SourceExecutorId = <<"0">>
                    /\ ret.pb[i].TargetExecutorId = <<"0">>
                    /\ ret.pb[i].SourceExecutorId
                          = Sprint(PlanID(filters[h].buildNode))
                       <=> PlanID(filters[h].buildNode) = 0
                    /\ filters[h].targetNode # Nil =>
                          (ret.pb[i].TargetExecutorId
                              = Sprint(PlanID(filters[h].targetNode))
                           <=> PlanID(filters[h].targetNode) = 0)

C17_AssignedLiveFilterSerialized ==
    /\ ret.op = "listToPB"
    /\ ret.err = <<>>
    /\ \E i \in 1..Len(ret.list) :
          /\ IsLive(ret.list[i])
          /\ filters[ret.list[i]].targetNode = "TableScan_1"
          /\ filters[ret.list[i]].buildNode = "HashJoin_3"
          /\ ret.pb[i].TargetExecutorId = <<"0">>
          /\ ret.pb[i].SourceExecutorId = <<"0">>

====
